---- MODULE Spec2Model ----
(***************************************************************************)
(* Tab Audio Arranger: the background service worker (session             *)
(* coordinator, background.js) and the offscreen document (pipeline       *)
(* engine, offscreen.js), which exchange chrome.runtime messages.         *)
(*                                                                         *)
(* Units.  Frequencies, gains, threshold, knee and ratio are the numbers  *)
(* of the source.  Q values are kept in hundredths (Q 0.01 is 1, Q 0.8 is *)
(* 80, Q 10 is 1000) and attack/release in milliseconds (0.003 s is 3,    *)
(* 0.25 s is 250), because the model has integers only.                   *)
(***************************************************************************)
EXTENDS Integers, Sequences, FiniteSets, Bags, TLC

(***************************************************************************)
(* Bounds of the model.                                                    *)
(***************************************************************************)
MaxOps == 3          \* user, browser and stream events in one behaviour
MaxEditedBands == 2  \* equalizer bands away from gain 0 in one config

Tabs == {1, 2}
SampleRates == {44100, 48000}      \* audioContext.sampleRate of the platform
ProtocolSampleRates == {48000}     \* the rate of the graphs in the protocol model
GainValues == {0, 12}              \* slider positions used in configs

NumBands == 10
Bands == 1..NumBands

(***************************************************************************)
(* Settings objects (background.js defaultSettings, popup.js).  eqGain[k]  *)
(* stands for the key eq<k>Gain: <<v>> when the object has the key with    *)
(* value v, Absent when the object lacks the key.                          *)
(***************************************************************************)
Absent == <<>>
GainEntries == {<<v>> : v \in GainValues} \cup {Absent}

defaultSettings ==
  [voiceEnhancementEnabled |-> TRUE,
   noiseCancelEnabled |-> TRUE,
   normalizeEnabled |-> TRUE,
   eqGain |-> [k \in Bands |-> <<0>>]]

EditedBands(s) == {k \in Bands : s.eqGain[k] # <<0>>}

\* the settings objects one change away from s: popup.js sends the whole
\* object after every change of one checkbox or one slider (its voice
\* enhancement checkbox sets all three flags); any other sender may change
\* or drop one key
OneEdit(s) ==
  {[s EXCEPT !.voiceEnhancementEnabled = ~@],
   [s EXCEPT !.voiceEnhancementEnabled = ~@,
             !.noiseCancelEnabled = ~s.voiceEnhancementEnabled,
             !.normalizeEnabled = ~s.voiceEnhancementEnabled],
   [s EXCEPT !.noiseCancelEnabled = ~@],
   [s EXCEPT !.normalizeEnabled = ~@]}
  \cup {t \in {[s EXCEPT !.eqGain[k] = v] : k \in Bands, v \in GainEntries} :
          t # s /\ Cardinality(EditedBands(t)) <= MaxEditedBands}

(***************************************************************************)
(* The parameter targets of one audio graph.                               *)
(***************************************************************************)
\* startAudioProcessing: the values the nodes are built with
ConstructedNodes(rate) ==
  [sampleRate |-> rate,
   notchFrequency |-> 50, notchQ |-> 1000,
   bandpassFrequency |-> 2000, bandpassQ |-> 80,
   lowpassFrequency |-> 4500,
   threshold |-> -24, knee |-> 30, ratio |-> 12, attack |-> 3, release |-> 250,
   eqGain |-> [k \in Bands |-> 0]]

\* applySettings, "Noise Cancellation" branch
NoiseCancelTargets(res, settings) ==
  IF settings.noiseCancelEnabled
  THEN [res EXCEPT !.notchFrequency = 60, !.notchQ = 1000,
                   !.bandpassFrequency = 1850, !.bandpassQ = 80,
                   !.lowpassFrequency = 4000]
  ELSE [res EXCEPT !.notchFrequency = 10, !.notchQ = 1,
                   !.bandpassFrequency = 10, !.bandpassQ = 1,
                   !.lowpassFrequency = (res.sampleRate \div 2) - 1]

\* applySettings, "Normalization (Compressor)" branch
NormalizeTargets(res, settings) ==
  IF settings.normalizeEnabled
  THEN [res EXCEPT !.threshold = -24, !.knee = 30, !.ratio = 12,
                   !.attack = 3, !.release = 250]
  ELSE [res EXCEPT !.threshold = 0, !.knee = 0, !.ratio = 1,
                   !.attack = 3, !.release = 250]

\* applySettings, voice enhancement off: every effect neutral
BypassTargets(res) ==
  [res EXCEPT !.notchFrequency = 10, !.notchQ = 1,
              !.bandpassFrequency = 10, !.bandpassQ = 1,
              !.lowpassFrequency = (res.sampleRate \div 2) - 1,
              !.threshold = 0, !.knee = 0, !.ratio = 1,
              !.attack = 3, !.release = 250]

\* a plausible slip: the master flag is not consulted
VoiceEnhancementTargetsNoMaster(res, settings) ==
  NormalizeTargets(NoiseCancelTargets(res, settings), settings)

\* a plausible slip: the compressor is gated by noiseCancelEnabled too
VoiceEnhancementTargetsCoupled(res, settings) ==
  IF settings.voiceEnhancementEnabled
  THEN IF settings.noiseCancelEnabled
       THEN NormalizeTargets(NoiseCancelTargets(res, settings), settings)
       ELSE BypassTargets(res)
  ELSE BypassTargets(res)

\* applySettings, the "Voice Enhancement" if/else
VoiceEnhancementTargets(res, settings) ==
  IF settings.voiceEnhancementEnabled
  THEN NormalizeTargets(NoiseCancelTargets(res, settings), settings)
  ELSE BypassTargets(res)

\* a plausible slip: a boosted band also lifts the band above it
EqualizerTargetsBleed(res, settings) ==
  [res EXCEPT !.eqGain =
     [k \in Bands |->
        IF k > 1 /\ settings.eqGain[k - 1] \notin {<<0>>, Absent}
        THEN settings.eqGain[k - 1][1]
        ELSE IF settings.eqGain[k] = Absent THEN 0 ELSE settings.eqGain[k][1]]]

\* a plausible slip: the equalizer follows the master flag like the effects
EqualizerTargetsGated(res, settings) ==
  IF settings.voiceEnhancementEnabled
  THEN [res EXCEPT !.eqGain =
          [k \in Bands |-> IF settings.eqGain[k] = Absent THEN 0 ELSE settings.eqGain[k][1]]]
  ELSE res

\* a plausible slip: the slider value is added to the band's gain
EqualizerTargetsAdd(res, settings) ==
  [res EXCEPT !.eqGain =
     [k \in Bands |->
        IF settings.eqGain[k] = Absent THEN 0 ELSE res.eqGain[k] + settings.eqGain[k][1]]]

\* applySettings, the "Equalizer" loop: settings[gainKey] ?? 0
EqualizerTargets(res, settings) ==
  [res EXCEPT !.eqGain =
     [k \in Bands |-> IF settings.eqGain[k] = Absent THEN 0 ELSE settings.eqGain[k][1]]]

applySettings(res, settings) ==
  EqualizerTargets(VoiceEnhancementTargets(res, settings), settings)

(***************************************************************************)
(* The nodes of one audio graph and the connections between them.  Band k  *)
(* is the peaking filter eqBands[k - 1], built with eqFrequencies[k - 1].  *)
(***************************************************************************)
eqFrequencies == <<31, 62, 125, 250, 500, 1000, 2000, 4000, 8000, 16000>>

\* the peaking filter of band k
Eq(k) == <<"eq1", "eq2", "eq3", "eq4", "eq5", "eq6", "eq7", "eq8", "eq9", "eq10">>[k]

\* startAudioProcessing: every a.connect(b) it calls, as the pair <<a, b>>
Connections ==
  {<<"source", "notch">>, <<"notch", "bandpass">>, <<"bandpass", "lowpass">>,
   <<"lowpass", Eq(1)>>, <<Eq(1), Eq(2)>>, <<Eq(2), Eq(3)>>,
   <<Eq(3), "compressor">>, <<"compressor", "gain">>, <<"gain", "destination">>}

(***************************************************************************)
(* State.                                                                  *)
(***************************************************************************)
VARIABLES
  \* background.js
  capturingTabs,     \* tabId -> status, "none" when the Map has no entry
  tabSettings,       \* tabId -> settings object, NoSettings when no entry
  startCaptures,     \* bag of startCapture calls suspended at their awaits
  \* messages in flight
  toOffscreen,       \* bag of messages sent with target 'offscreen'
  toBackground,      \* bag of messages sent by the offscreen document
  \* offscreen.js
  audioResources,    \* tabId -> id of the resources object, 0 when no entry
  objects,           \* id -> the stream / audio graph acquired under that id
  startProcessings,  \* bag of startAudioProcessing calls awaiting getUserMedia
  stopProcessings,   \* bag of stopAudioProcessing calls awaiting close()
  \* the browser
  removedTabs,       \* tabs that were closed (their ids are not reused)
  ops,               \* user, browser and stream events so far
  \* one audio graph driven by a sequence of applySettings calls
  apSettings,        \* the settings applied last
  apRes,             \* the targets after that call
  apPrevSettings,    \* the settings applied before it
  apPrevRes,         \* the targets after that earlier call
  \* the popup
  response,          \* what the last sendResponse of the coordinator answered
  toPopup            \* bag of the status-update messages sent so far

bgVars == <<capturingTabs, tabSettings, startCaptures>>
msgVars == <<toOffscreen, toBackground>>
engVars == <<audioResources, objects, startProcessings, stopProcessings>>
envVars == <<removedTabs, ops>>
apVars == <<apSettings, apRes, apPrevSettings, apPrevRes>>
vars == <<bgVars, msgVars, engVars, envVars, apVars, response, toPopup>>

\* no sendResponse was called yet
NoResponse == [none |-> TRUE]

\* sendResponse(answer) in the handler of the popup's message query
Response(type, tabId, answer) == [type |-> type, tabId |-> tabId, answer |-> answer]

NoSettings == [none |-> TRUE]
NoRes == [none |-> TRUE]

\* every acquisition answers a start-processing message and every such
\* message answers one toggle, so MaxOps ids are enough
ObjectIds == 1..MaxOps

\* the settings objects sent in update-settings in the protocol model: the
\* defaults, and an object with a flag off, a band moved and a key missing
PopupSettings ==
  {defaultSettings,
   [defaultSettings EXCEPT !.voiceEnhancementEnabled = FALSE, !.eqGain[1] = <<12>>,
                           !.eqGain[2] = Absent]}

\* an id under which nothing was acquired yet
UnusedObject ==
  [tabId |-> 0, stream |-> "none", audioContext |-> "none",
   res |-> NoRes, settings |-> NoSettings, onended |-> FALSE, connections |-> {}]

Msg(type, tabId) == [type |-> type, tabId |-> tabId]
One(m) == SetToBag({m})

(***************************************************************************)
(* background.js                                                           *)
(***************************************************************************)
\* getSettingsForTab: tabSettings.get(tabId) || { ...defaultSettings }
getSettingsForTab(tabId) ==
  IF tabSettings[tabId] # NoSettings THEN tabSettings[tabId] ELSE defaultSettings

\* capturingTabs.has(tabId) && capturingTabs.get(tabId).status !== 'inactive'
Capturing(tabId) == capturingTabs[tabId] \notin {"none", "inactive"}

\* a plausible slip: startCapture without its guard
startCaptureNoGuard(tabId) ==
  /\ capturingTabs' = [capturingTabs EXCEPT ![tabId] = "starting"]
  /\ startCaptures' = startCaptures (+) One([tabId |-> tabId])
  /\ UNCHANGED <<tabSettings, msgVars>>

\* startCapture up to its first await
startCapture(tabId) ==
  IF Capturing(tabId)
  THEN UNCHANGED <<bgVars, msgVars>>
  ELSE /\ capturingTabs' = [capturingTabs EXCEPT ![tabId] = "starting"]
       /\ startCaptures' = startCaptures (+) One([tabId |-> tabId])
       /\ UNCHANGED <<tabSettings, msgVars>>

\* a plausible slip: a tab that is stopping already is not stopped again
stopCaptureOnce(tabId) ==
  IF ~Capturing(tabId) \/ capturingTabs[tabId] = "stopping"
  THEN UNCHANGED <<bgVars, msgVars>>
  ELSE /\ capturingTabs' = [capturingTabs EXCEPT ![tabId] = "stopping"]
       /\ toOffscreen' = toOffscreen (+) One(Msg("stop-processing", tabId))
       /\ UNCHANGED <<tabSettings, startCaptures, toBackground>>

\* stopCapture
stopCapture(tabId) ==
  IF ~Capturing(tabId)
  THEN UNCHANGED <<bgVars, msgVars>>
  ELSE /\ capturingTabs' = [capturingTabs EXCEPT ![tabId] = "stopping"]
       /\ toOffscreen' = toOffscreen (+) One(Msg("stop-processing", tabId))
       /\ UNCHANGED <<tabSettings, startCaptures, toBackground>>

\* a plausible slip: the toggle starts whenever the tab is not active
toggleCaptureActiveOnly(tabId) ==
  /\ ops < MaxOps
  /\ tabId \notin removedTabs
  /\ IF capturingTabs[tabId] = "active" THEN stopCapture(tabId)
     ELSE startCaptureNoGuard(tabId)
  /\ ops' = ops + 1
  /\ UNCHANGED <<engVars, removedTabs, apVars, response>>
  /\ UNCHANGED toPopup

\* toggleCapture, from action.onClicked or a toggle-capture message
toggleCapture(tabId) ==
  /\ ops < MaxOps
  /\ tabId \notin removedTabs
  /\ IF Capturing(tabId) THEN stopCapture(tabId) ELSE startCapture(tabId)
  /\ ops' = ops + 1
  /\ UNCHANGED <<engVars, removedTabs, apVars, response>>
  /\ UNCHANGED toPopup

\* a plausible slip: the catch block only logs
startCaptureResumeNoCatch(c, ok) ==
  /\ BagIn(c, startCaptures)
  /\ startCaptures' = startCaptures (-) One(c)
  /\ IF ok
     THEN /\ tabSettings' = [tabSettings EXCEPT ![c.tabId] = getSettingsForTab(c.tabId)]
          /\ \E streamId \in BOOLEAN :
               toOffscreen' = toOffscreen (+)
                 One([type |-> "start-processing", tabId |-> c.tabId,
                      streamId |-> streamId, settings |-> getSettingsForTab(c.tabId)])
          /\ UNCHANGED capturingTabs
     ELSE UNCHANGED <<capturingTabs, tabSettings, toOffscreen>>
  /\ UNCHANGED <<toBackground, engVars, envVars, apVars, response>>
  /\ UNCHANGED toPopup

\* a plausible slip: start-processing always carries the defaults
startCaptureResumeDefaults(c, ok) ==
  /\ BagIn(c, startCaptures)
  /\ startCaptures' = startCaptures (-) One(c)
  /\ IF ok
     THEN /\ tabSettings' = [tabSettings EXCEPT ![c.tabId] = getSettingsForTab(c.tabId)]
          /\ \E streamId \in BOOLEAN :
               toOffscreen' = toOffscreen (+)
                 One([type |-> "start-processing", tabId |-> c.tabId,
                      streamId |-> streamId, settings |-> defaultSettings])
          /\ UNCHANGED capturingTabs
     ELSE /\ capturingTabs' = [capturingTabs EXCEPT ![c.tabId] = "inactive"]
          /\ UNCHANGED <<tabSettings, toOffscreen>>
  /\ UNCHANGED <<toBackground, engVars, envVars, apVars, response>>
  /\ UNCHANGED toPopup

\* a plausible slip: start-processing is sent before the stream id is
\* awaited, so a failure comes after the send
startCaptureResumeSendFirst(c, ok) ==
  /\ BagIn(c, startCaptures)
  /\ startCaptures' = startCaptures (-) One(c)
  /\ tabSettings' = [tabSettings EXCEPT ![c.tabId] = getSettingsForTab(c.tabId)]
  /\ IF ok
     THEN /\ \E streamId \in BOOLEAN :
               toOffscreen' = toOffscreen (+)
                 One([type |-> "start-processing", tabId |-> c.tabId,
                      streamId |-> streamId, settings |-> getSettingsForTab(c.tabId)])
          /\ UNCHANGED capturingTabs
     ELSE /\ toOffscreen' = toOffscreen (+)
               One([type |-> "start-processing", tabId |-> c.tabId,
                    streamId |-> FALSE, settings |-> getSettingsForTab(c.tabId)])
          /\ capturingTabs' = [capturingTabs EXCEPT ![c.tabId] = "inactive"]
  /\ UNCHANGED <<toBackground, engVars, envVars, apVars, response>>
  /\ UNCHANGED toPopup

\* startCapture after its awaits (hasOffscreenDocument, createDocument,
\* getMediaStreamId; no statement of startCapture runs between them).
\* ok: all resolved, the settings are read and stored and start-processing
\* is sent; otherwise one of them threw and the catch block runs.  streamId
\* is the truth value of what getMediaStreamId resolved with, which the
\* message carries unexamined.
startCaptureResume(c, ok) ==
  /\ BagIn(c, startCaptures)
  /\ startCaptures' = startCaptures (-) One(c)
  /\ IF ok
     THEN /\ tabSettings' = [tabSettings EXCEPT ![c.tabId] = getSettingsForTab(c.tabId)]
          /\ \E streamId \in BOOLEAN :
               toOffscreen' = toOffscreen (+)
                 One([type |-> "start-processing", tabId |-> c.tabId,
                      streamId |-> streamId, settings |-> getSettingsForTab(c.tabId)])
          /\ UNCHANGED capturingTabs
     ELSE /\ capturingTabs' = [capturingTabs EXCEPT ![c.tabId] = "inactive"]
          /\ UNCHANGED <<tabSettings, toOffscreen>>
  /\ UNCHANGED <<toBackground, engVars, envVars, apVars, response>>
  /\ UNCHANGED toPopup

\* onMessage, sender is the offscreen document: the status the switch sets
\* for a tab that has an entry
NewStatus(type) ==
  IF type = "processing-started" THEN "active" ELSE "inactive"

\* sendPopupStatusUpdate: the message it sends.  When no popup is open the
\* promise of sendMessage rejects and the catch logs; it has no assignment
StatusUpdate(tabId, status) ==
  [type |-> "status-update", tabId |-> tabId, status |-> status]

\* a plausible slip: the cases set the status without capturingTabs.has
onOffscreenMessageNoHas(m) ==
  /\ BagIn(m, toBackground)
  /\ toBackground' = toBackground (-) One(m)
  /\ capturingTabs' = [capturingTabs EXCEPT ![m.tabId] = NewStatus(m.type)]
  /\ toPopup' = toPopup (+) One(StatusUpdate(m.tabId, NewStatus(m.type)))
  /\ UNCHANGED <<tabSettings, startCaptures, toOffscreen, engVars, envVars, apVars, response>>

\* a plausible slip: the popup is notified only when the status changed
onOffscreenMessageOnChange(m) ==
  /\ BagIn(m, toBackground)
  /\ toBackground' = toBackground (-) One(m)
  /\ IF capturingTabs[m.tabId] # "none"
     THEN /\ capturingTabs' = [capturingTabs EXCEPT ![m.tabId] = NewStatus(m.type)]
          /\ IF capturingTabs[m.tabId] # NewStatus(m.type)
             THEN toPopup' = toPopup (+) One(StatusUpdate(m.tabId, NewStatus(m.type)))
             ELSE UNCHANGED toPopup
     ELSE /\ UNCHANGED capturingTabs
          /\ UNCHANGED toPopup
  /\ UNCHANGED <<tabSettings, startCaptures, toOffscreen, engVars, envVars, apVars, response>>

onOffscreenMessage(m) ==
  /\ BagIn(m, toBackground)
  /\ toBackground' = toBackground (-) One(m)
  /\ IF capturingTabs[m.tabId] # "none"
     THEN /\ capturingTabs' = [capturingTabs EXCEPT ![m.tabId] = NewStatus(m.type)]
          /\ toPopup' = toPopup (+) One(StatusUpdate(m.tabId, NewStatus(m.type)))
     ELSE /\ UNCHANGED capturingTabs
          /\ UNCHANGED toPopup
  /\ UNCHANGED <<tabSettings, startCaptures, toOffscreen, engVars, envVars, apVars, response>>

\* a plausible slip: the keys the new object lacks are kept from the
\* settings the tab had
onUpdateSettingsMerge(tabId, settings) ==
  /\ ops < MaxOps
  /\ tabId \notin removedTabs
  /\ IF settings # NoSettings
     THEN /\ tabSettings' = [tabSettings EXCEPT ![tabId] =
                 [settings EXCEPT !.eqGain =
                    [k \in Bands |-> IF settings.eqGain[k] = Absent
                                     THEN getSettingsForTab(tabId).eqGain[k]
                                     ELSE settings.eqGain[k]]]]
          /\ IF capturingTabs[tabId] = "active"
             THEN toOffscreen' = toOffscreen (+)
                    One([type |-> "update-settings", tabId |-> tabId, settings |-> settings])
             ELSE UNCHANGED toOffscreen
          /\ response' = Response("update-settings", tabId, [success |-> TRUE])
     ELSE /\ response' = Response("update-settings", tabId, [error |-> TRUE])
          /\ UNCHANGED <<tabSettings, toOffscreen>>
  /\ ops' = ops + 1
  /\ UNCHANGED <<capturingTabs, startCaptures, toBackground, engVars, removedTabs, apVars>>
  /\ UNCHANGED toPopup

\* a plausible slip: the update is forwarded whenever the tab has an entry
onUpdateSettingsAlwaysForward(tabId, settings) ==
  /\ ops < MaxOps
  /\ tabId \notin removedTabs
  /\ IF settings # NoSettings
     THEN /\ tabSettings' = [tabSettings EXCEPT ![tabId] = settings]
          /\ IF capturingTabs[tabId] # "none"
             THEN toOffscreen' = toOffscreen (+)
                    One([type |-> "update-settings", tabId |-> tabId, settings |-> settings])
             ELSE UNCHANGED toOffscreen
          /\ response' = Response("update-settings", tabId, [success |-> TRUE])
     ELSE /\ response' = Response("update-settings", tabId, [error |-> TRUE])
          /\ UNCHANGED <<tabSettings, toOffscreen>>
  /\ ops' = ops + 1
  /\ UNCHANGED <<capturingTabs, startCaptures, toBackground, engVars, removedTabs, apVars>>
  /\ UNCHANGED toPopup

\* onMessage case 'update-settings', sender is the popup; settings is
\* NoSettings when the message has no settings object
onUpdateSettings(tabId, settings) ==
  /\ ops < MaxOps
  /\ tabId \notin removedTabs
  /\ IF settings # NoSettings
     THEN /\ tabSettings' = [tabSettings EXCEPT ![tabId] = settings]
          /\ IF capturingTabs[tabId] = "active"
             THEN toOffscreen' = toOffscreen (+)
                    One([type |-> "update-settings", tabId |-> tabId, settings |-> settings])
             ELSE UNCHANGED toOffscreen
          /\ response' = Response("update-settings", tabId, [success |-> TRUE])
     ELSE /\ response' = Response("update-settings", tabId, [error |-> TRUE])
          /\ UNCHANGED <<tabSettings, toOffscreen>>
  /\ ops' = ops + 1
  /\ UNCHANGED <<capturingTabs, startCaptures, toBackground, engVars, removedTabs, apVars>>
  /\ UNCHANGED toPopup

\* a plausible slip: get-settings stores the defaults it answers with
onGetSettingsStoring(tabId) ==
  /\ ops < MaxOps
  /\ response' = Response("get-settings", tabId, getSettingsForTab(tabId))
  /\ tabSettings' = [tabSettings EXCEPT ![tabId] = getSettingsForTab(tabId)]
  /\ ops' = ops + 1
  /\ UNCHANGED <<capturingTabs, startCaptures, msgVars, engVars, removedTabs, apVars>>
  /\ UNCHANGED toPopup

\* a plausible slip: the status is answered without the 'inactive' fallback
onGetStatusNoFallback(tabId) ==
  /\ ops < MaxOps
  /\ response' = Response("get-status", tabId, [status |-> capturingTabs[tabId]])
  /\ ops' = ops + 1
  /\ UNCHANGED <<bgVars, msgVars, engVars, removedTabs, apVars>>
  /\ UNCHANGED toPopup

\* onMessage case 'get-status': capturingTabs.get(tabId)?.status || 'inactive'
onGetStatus(tabId) ==
  /\ ops < MaxOps
  /\ response' = Response("get-status", tabId,
                    [status |-> IF capturingTabs[tabId] = "none" THEN "inactive"
                                ELSE capturingTabs[tabId]])
  /\ ops' = ops + 1
  /\ UNCHANGED <<bgVars, msgVars, engVars, removedTabs, apVars>>
  /\ UNCHANGED toPopup

\* onMessage case 'get-settings'
onGetSettings(tabId) ==
  /\ ops < MaxOps
  /\ response' = Response("get-settings", tabId, getSettingsForTab(tabId))
  /\ ops' = ops + 1
  /\ UNCHANGED <<bgVars, msgVars, engVars, removedTabs, apVars>>
  /\ UNCHANGED toPopup

\* a plausible slip: a capturing tab's settings survive its removal
onRemovedKeepSettings(tabId) ==
  /\ ops < MaxOps
  /\ tabId \notin removedTabs
  /\ removedTabs' = removedTabs \cup {tabId}
  /\ IF Capturing(tabId)
     THEN /\ toOffscreen' = toOffscreen (+) One(Msg("stop-processing", tabId))
          /\ UNCHANGED tabSettings
     ELSE /\ tabSettings' = [tabSettings EXCEPT ![tabId] = NoSettings]
          /\ UNCHANGED toOffscreen
  /\ capturingTabs' = [capturingTabs EXCEPT ![tabId] = "none"]
  /\ ops' = ops + 1
  /\ UNCHANGED <<startCaptures, toBackground, engVars, apVars, response>>
  /\ UNCHANGED toPopup

\* tabs.onRemoved
onRemoved(tabId) ==
  /\ ops < MaxOps
  /\ tabId \notin removedTabs
  /\ removedTabs' = removedTabs \cup {tabId}
  /\ IF Capturing(tabId)
     THEN toOffscreen' = toOffscreen (+) One(Msg("stop-processing", tabId))
     ELSE UNCHANGED toOffscreen
  /\ capturingTabs' = [capturingTabs EXCEPT ![tabId] = "none"]
  /\ tabSettings' = [tabSettings EXCEPT ![tabId] = NoSettings]
  /\ ops' = ops + 1
  /\ UNCHANGED <<startCaptures, toBackground, engVars, apVars, response>>
  /\ UNCHANGED toPopup

\* tabs.onUpdated; reload is changeInfo.status === 'loading' || changeInfo.url
onUpdated(tabId, reload) ==
  /\ ops < MaxOps
  /\ tabId \notin removedTabs
  /\ IF Capturing(tabId) /\ reload
     THEN /\ toOffscreen' = toOffscreen (+) One(Msg("stop-processing", tabId))
          /\ capturingTabs' = [capturingTabs EXCEPT ![tabId] = "inactive"]
          /\ tabSettings' = [tabSettings EXCEPT ![tabId] = NoSettings]
     ELSE UNCHANGED <<toOffscreen, capturingTabs, tabSettings>>
  /\ ops' = ops + 1
  /\ UNCHANGED <<startCaptures, toBackground, engVars, removedTabs, apVars, response>>
  /\ UNCHANGED toPopup

(***************************************************************************)
(* offscreen.js                                                            *)
(***************************************************************************)
\* what stopAudioProcessing sends when it returns; then = "error" when the
\* caller is the catch of startAudioProcessing, which sends the error next
StopNotices(tabId, then) ==
  One(Msg("processing-stopped", tabId))
    (+) (IF then = "error" THEN One(Msg("error", tabId)) ELSE EmptyBag)

\* the object table after the try block of stopAudioProcessing: close() has
\* settled (closeOk), then track.stop() has returned or thrown (stopOk)
Released(objs, id, closeOk, stopOk) ==
  LET closed == IF closeOk THEN [objs EXCEPT ![id].audioContext = "closed"] ELSE objs
  IN  IF closeOk /\ stopOk /\ closed[id].stream = "live"
      THEN [closed EXCEPT ![id].stream = "stopped"]
      ELSE closed      \* a throw in step 1 skips step 2

\* a plausible slip: the record is kept and an error is reported when a
\* release step failed
stopAudioProcessingTryKeep(objs, id, tabId, then, closeOk, stopOk) ==
  /\ objects' = Released(objs, id, closeOk, stopOk)
  /\ IF closeOk /\ stopOk
     THEN /\ audioResources' = [audioResources EXCEPT ![tabId] = 0]
          /\ toBackground' = toBackground (+) StopNotices(tabId, then)
     ELSE /\ toBackground' = toBackground (+) One(Msg("error", tabId))
          /\ UNCHANGED audioResources

\* stopAudioProcessing: try, catch and finally
stopAudioProcessingTry(objs, id, tabId, then, closeOk, stopOk) ==
  /\ objects' = Released(objs, id, closeOk, stopOk)
  /\ audioResources' = [audioResources EXCEPT ![tabId] = 0]
  /\ toBackground' = toBackground (+) StopNotices(tabId, then)

\* stopAudioProcessing up to its await; objs is the object table as the
\* caller left it
stopAudioProcessing(objs, tabId, then) ==
  LET id == audioResources[tabId] IN
  IF id = 0
  THEN /\ toBackground' = toBackground (+) StopNotices(tabId, then)
       /\ objects' = objs
       /\ UNCHANGED <<audioResources, stopProcessings>>
  ELSE IF objs[id].audioContext # "closed"
  THEN /\ stopProcessings' = stopProcessings (+) One([tabId |-> tabId, id |-> id, then |-> then])
       /\ objects' = objs
       /\ UNCHANGED <<audioResources, toBackground>>
  ELSE /\ \E stopOk \in BOOLEAN :
            stopAudioProcessingTry(objs, id, tabId, then, TRUE, stopOk)
       /\ UNCHANGED stopProcessings

\* stopAudioProcessing resumes after await resources.audioContext.close()
stopAudioProcessingResume(c, closeOk, stopOk) ==
  /\ BagIn(c, stopProcessings)
  /\ stopProcessings' = stopProcessings (-) One(c)
  /\ stopAudioProcessingTry(objects, c.id, c.tabId, c.then, closeOk, stopOk)
  /\ UNCHANGED <<bgVars, toOffscreen, startProcessings, envVars, apVars, response>>
  /\ UNCHANGED toPopup

\* onMessage case 'stop-processing'
onStopProcessing(m) ==
  /\ BagIn(m, toOffscreen)
  /\ m.type = "stop-processing"
  /\ toOffscreen' = toOffscreen (-) One(m)
  /\ stopAudioProcessing(objects, m.tabId, "return")
  /\ UNCHANGED <<bgVars, startProcessings, envVars, apVars, response>>
  /\ UNCHANGED toPopup

\* a plausible slip: the handler only logs that the track ended
onendedNoStop(id) ==
  /\ ops < MaxOps
  /\ objects[id].stream = "live"
  /\ objects[id].onended
  /\ objects' = [objects EXCEPT ![id].stream = "ended"]
  /\ ops' = ops + 1
  /\ UNCHANGED <<bgVars, msgVars, audioResources, startProcessings, stopProcessings,
                 removedTabs, apVars, response>>
  /\ UNCHANGED toPopup

\* track.onended of a stream whose handler was registered
onended(id) ==
  /\ ops < MaxOps
  /\ objects[id].stream = "live"
  /\ objects[id].onended
  /\ stopAudioProcessing([objects EXCEPT ![id].stream = "ended"], objects[id].tabId, "return")
  /\ ops' = ops + 1
  /\ UNCHANGED <<bgVars, toOffscreen, startProcessings, removedTabs, apVars, response>>
  /\ UNCHANGED toPopup

\* a plausible slip: the start does not look for an existing record
startAudioProcessingNoCheck(tabId, settings) ==
  /\ startProcessings' = startProcessings (+) One([tabId |-> tabId, settings |-> settings])
  /\ UNCHANGED <<audioResources, objects, stopProcessings, toBackground>>

\* startAudioProcessing up to await getUserMedia
startAudioProcessing(tabId, settings) ==
  IF audioResources[tabId] # 0
  THEN /\ toBackground' = toBackground (+) One(Msg("processing-started", tabId))
       /\ UNCHANGED engVars
  ELSE /\ startProcessings' = startProcessings (+) One([tabId |-> tabId, settings |-> settings])
       /\ UNCHANGED <<audioResources, objects, stopProcessings, toBackground>>

\* a plausible slip: the message is not examined for its streamId
onStartProcessingUnexamined(m) ==
  /\ BagIn(m, toOffscreen)
  /\ m.type = "start-processing"
  /\ toOffscreen' = toOffscreen (-) One(m)
  /\ startAudioProcessing(m.tabId, m.settings)
  /\ UNCHANGED <<bgVars, envVars, apVars, response>>
  /\ UNCHANGED toPopup

\* onMessage case 'start-processing'
onStartProcessing(m) ==
  /\ BagIn(m, toOffscreen)
  /\ m.type = "start-processing"
  /\ toOffscreen' = toOffscreen (-) One(m)
  /\ IF ~m.streamId
     THEN /\ toBackground' = toBackground (+) One(Msg("error", m.tabId))
          /\ UNCHANGED engVars
     ELSE startAudioProcessing(m.tabId, m.settings)
  /\ UNCHANGED <<bgVars, envVars, apVars, response>>
  /\ UNCHANGED toPopup

\* the lowest id nothing was acquired under
FreeId == CHOOSE id \in ObjectIds :
            objects[id] = UnusedObject /\ \A j \in 1..(id - 1) : objects[j] # UnusedObject

\* a plausible slip: the catch cleans up but reports nothing
getUserMediaRejectedSilent(c) ==
  /\ BagIn(c, startProcessings)
  /\ startProcessings' = startProcessings (-) One(c)
  /\ stopAudioProcessing(objects, c.tabId, "return")
  /\ UNCHANGED <<bgVars, toOffscreen, envVars, apVars, response>>
  /\ UNCHANGED toPopup

\* startAudioProcessing: getUserMedia rejects; catch
getUserMediaRejected(c) ==
  /\ BagIn(c, startProcessings)
  /\ startProcessings' = startProcessings (-) One(c)
  /\ stopAudioProcessing(objects, c.tabId, "error")
  /\ UNCHANGED <<bgVars, toOffscreen, envVars, apVars, response>>
  /\ UNCHANGED toPopup

\* startAudioProcessing: getUserMedia resolves and the rest of the try block
\* runs; built is "graph" when it runs to the end, "nothing" when
\* new AudioContext() throws, "context" when a later construction step throws
getUserMediaResolved(c, built, rate) ==
  /\ BagIn(c, startProcessings)
  /\ \E id \in ObjectIds : objects[id] = UnusedObject
  /\ startProcessings' = startProcessings (-) One(c)
  /\ LET acquired == [UnusedObject EXCEPT !.tabId = c.tabId, !.stream = "live"] IN
     IF built = "graph"
     THEN /\ objects' = [objects EXCEPT ![FreeId] =
                 [acquired EXCEPT !.audioContext = "running",
                                  !.res = applySettings(ConstructedNodes(rate), c.settings),
                                  !.settings = c.settings,
                                  !.onended = TRUE,
                                  !.connections = Connections]]
          /\ audioResources' = [audioResources EXCEPT ![c.tabId] = FreeId]
          /\ toBackground' = toBackground (+) One(Msg("processing-started", c.tabId))
          /\ UNCHANGED stopProcessings
     ELSE stopAudioProcessing(
            [objects EXCEPT ![FreeId] =
               IF built = "context" THEN [acquired EXCEPT !.audioContext = "running"]
               ELSE acquired],
            c.tabId, "error")
  /\ UNCHANGED <<bgVars, toOffscreen, envVars, apVars, response>>
  /\ UNCHANGED toPopup

\* a plausible slip: an update for a tab without a record is reported as
\* an error
onUpdateSettingsOffscreenEscalate(m) ==
  /\ BagIn(m, toOffscreen)
  /\ m.type = "update-settings"
  /\ toOffscreen' = toOffscreen (-) One(m)
  /\ IF audioResources[m.tabId] # 0
     THEN /\ objects' = [objects EXCEPT
               ![audioResources[m.tabId]].res = applySettings(@, m.settings),
               ![audioResources[m.tabId]].settings = m.settings]
          /\ UNCHANGED toBackground
     ELSE /\ toBackground' = toBackground (+) One(Msg("error", m.tabId))
          /\ UNCHANGED objects
  /\ UNCHANGED <<bgVars, audioResources, startProcessings,
                 stopProcessings, envVars, apVars, response>>
  /\ UNCHANGED toPopup

\* onMessage case 'update-settings' in the offscreen document
onUpdateSettingsOffscreen(m) ==
  /\ BagIn(m, toOffscreen)
  /\ m.type = "update-settings"
  /\ toOffscreen' = toOffscreen (-) One(m)
  /\ IF audioResources[m.tabId] # 0
     THEN objects' = [objects EXCEPT
            ![audioResources[m.tabId]].res = applySettings(@, m.settings),
            ![audioResources[m.tabId]].settings = m.settings]
     ELSE UNCHANGED objects
  /\ UNCHANGED <<bgVars, toBackground, audioResources, startProcessings,
                 stopProcessings, envVars, apVars, response>>
  /\ UNCHANGED toPopup

(***************************************************************************)
(* The protocol: both contexts, the messages between them, the user and    *)
(* the browser.  Messages are delivered in any order.                      *)
(***************************************************************************)
ProtocolInit ==
  /\ capturingTabs = [t \in Tabs |-> "none"]
  /\ tabSettings = [t \in Tabs |-> NoSettings]
  /\ startCaptures = EmptyBag
  /\ toOffscreen = EmptyBag
  /\ toBackground = EmptyBag
  /\ audioResources = [t \in Tabs |-> 0]
  /\ objects = [id \in ObjectIds |-> UnusedObject]
  /\ startProcessings = EmptyBag
  /\ stopProcessings = EmptyBag
  /\ removedTabs = {}
  /\ ops = 0
  /\ response = NoResponse
  /\ toPopup = EmptyBag

Init ==
  /\ ProtocolInit
  /\ apSettings = defaultSettings
  /\ apPrevSettings = defaultSettings
  /\ apRes = NoRes
  /\ apPrevRes = NoRes

Next ==
  \/ \E t \in Tabs : toggleCapture(t)
  \/ \E c \in BagToSet(startCaptures), ok \in BOOLEAN : startCaptureResume(c, ok)
  \/ \E m \in BagToSet(toBackground) : onOffscreenMessage(m)
  \/ \E t \in Tabs, s \in PopupSettings \cup {NoSettings} : onUpdateSettings(t, s)
  \/ \E t \in Tabs : onGetStatus(t)
  \/ \E t \in Tabs : onGetSettings(t)
  \/ \E t \in Tabs : onRemoved(t)
  \/ \E t \in Tabs, reload \in BOOLEAN : onUpdated(t, reload)
  \/ \E m \in BagToSet(toOffscreen) : onStartProcessing(m)
  \/ \E m \in BagToSet(toOffscreen) : onStopProcessing(m)
  \/ \E m \in BagToSet(toOffscreen) : onUpdateSettingsOffscreen(m)
  \/ \E c \in BagToSet(startProcessings) : getUserMediaRejected(c)
  \/ \E c \in BagToSet(startProcessings), built \in {"graph", "nothing", "context"},
        rate \in ProtocolSampleRates : getUserMediaResolved(c, built, rate)
  \/ \E c \in BagToSet(stopProcessings), closeOk, stopOk \in BOOLEAN :
        stopAudioProcessingResume(c, closeOk, stopOk)
  \/ \E id \in ObjectIds : onended(id)

Spec == Init /\ [][Next]_vars

\* every step either context takes on its own: a suspended call resumes or
\* a message in flight is handled
Internal ==
  \/ \E c \in BagToSet(startCaptures), ok \in BOOLEAN : startCaptureResume(c, ok)
  \/ \E m \in BagToSet(toBackground) : onOffscreenMessage(m)
  \/ \E m \in BagToSet(toOffscreen) : onStartProcessing(m)
  \/ \E m \in BagToSet(toOffscreen) : onStopProcessing(m)
  \/ \E m \in BagToSet(toOffscreen) : onUpdateSettingsOffscreen(m)
  \/ \E c \in BagToSet(startProcessings) : getUserMediaRejected(c)
  \/ \E c \in BagToSet(startProcessings), built \in {"graph", "nothing", "context"},
        rate \in ProtocolSampleRates : getUserMediaResolved(c, built, rate)
  \/ \E c \in BagToSet(stopProcessings), closeOk, stopOk \in BOOLEAN :
        stopAudioProcessingResume(c, closeOk, stopOk)

\* every message sent is delivered and every pending promise settles
FairSpec == Spec /\ WF_vars(Internal)

(***************************************************************************)
(* Properties of the protocol, checked under Spec and FairSpec.            *)
(***************************************************************************)
\* no message in flight and no call suspended
Quiescent ==
  /\ startCaptures = EmptyBag
  /\ toOffscreen = EmptyBag
  /\ toBackground = EmptyBag
  /\ startProcessings = EmptyBag
  /\ stopProcessings = EmptyBag

\* what get-status answers: capturingTabs.get(tabId)?.status || 'inactive'
Status(tabId) ==
  IF capturingTabs[tabId] = "none" THEN "inactive" ELSE capturingTabs[tabId]

\* the streams acquired for a tab and not released
LiveStreams(tabId) ==
  {id \in ObjectIds : objects[id].tabId = tabId /\ objects[id].stream = "live"}

\* the audio graphs built for a tab whose context is still open
OpenGraphs(tabId) ==
  {id \in ObjectIds : /\ objects[id].tabId = tabId
                      /\ objects[id].res # NoRes
                      /\ objects[id].audioContext = "running"}

StartsInProgress(tabId) ==
  {c \in BagToSet(startProcessings) : c.tabId = tabId}

\* C1: the engine never holds two acquired streams with their audio graphs
\* for the same tab at once, and audioResources.set never replaces a record
\* that is still in the map.
C1_OneSessionPerTab ==
  \A t \in Tabs : Cardinality(LiveStreams(t) \cap OpenGraphs(t)) <= 1

\* C2: in every quiescent state the coordinator's status of a tab is active
\* exactly when the engine holds a record for that tab.
C2_StateConsistency ==
  Quiescent => \A t \in Tabs : (capturingTabs[t] = "active") <=> (audioResources[t] # 0)

\* C3: under FairSpec a tab whose status is starting or stopping eventually
\* has status active or inactive, and the catch of startCapture and every
\* error notification leave the tab's status inactive.
C3_NoStuckTransient ==
  /\ \A t \in Tabs :
       (capturingTabs[t] \in {"starting", "stopping"})
         ~> (Status(t) \in {"active", "inactive"})
  /\ [][\A t \in Tabs :
          \/ \E c \in BagToSet(startCaptures) : c.tabId = t /\ startCaptureResume(c, FALSE)
          \/ onOffscreenMessage(Msg("error", t))
          => Status(t)' = "inactive"]_vars

\* a start failed in the engine while the tab was starting, and the tab is
\* inactive with nothing left in flight
C3_Witness ==
  \E t \in Tabs :
    /\ Quiescent
    /\ capturingTabs[t] = "inactive"
    /\ tabSettings[t] # NoSettings
    /\ LiveStreams(t) = {}
    /\ ops = 1

\* C4: a toggle that finds the tab starting or active starts no new
\* startCapture (so requests no stream id) and sends no start-processing.
C4_NoSecondStart ==
  [][\A t \in Tabs :
       toggleCapture(t) /\ capturingTabs[t] \in {"starting", "active"}
         => /\ startCaptures' = startCaptures
            /\ \A m \in BagToSet(toOffscreen') :
                 m.type = "start-processing"
                   => CopiesIn(m, toOffscreen') = CopiesIn(m, toOffscreen)]_vars

\* the second of two toggles found the tab starting or active: the tab is
\* stopping while the start of the first toggle is still under way
C4_Witness ==
  \E t \in Tabs :
    /\ ops = 2
    /\ capturingTabs[t] = "stopping"
    /\ Msg("stop-processing", t) \in BagToSet(toOffscreen)
    /\ \/ [tabId |-> t] \in BagToSet(startCaptures)
       \/ StartsInProgress(t) # {}

Errors(bag, t) == CopiesIn(Msg("error", t), bag)
Stops(bag, t) == CopiesIn(Msg("processing-stopped", t), bag)

\* C5: when getUserMedia rejects in startAudioProcessing(tabId), the call
\* sends an error message for tabId and leaves no record for the tab (at
\* once when the tab has no record, else when the stopAudioProcessing the
\* catch awaits has finished), and the coordinator handling that error
\* message leaves the tab's status inactive.
C5_AcquisitionFailure ==
  [][\A t \in Tabs :
       /\ (\E c \in BagToSet(startProcessings) : c.tabId = t /\ getUserMediaRejected(c))
            => IF audioResources[t] = 0
               THEN /\ Errors(toBackground', t) = Errors(toBackground, t) + 1
                    /\ audioResources'[t] = 0
               ELSE LET d == [tabId |-> t, id |-> audioResources[t], then |-> "error"]
                    IN  CopiesIn(d, stopProcessings') = CopiesIn(d, stopProcessings) + 1
       /\ (\E d \in BagToSet(stopProcessings), closeOk, stopOk \in BOOLEAN :
             d.tabId = t /\ d.then = "error" /\ stopAudioProcessingResume(d, closeOk, stopOk))
            => /\ Errors(toBackground', t) = Errors(toBackground, t) + 1
               /\ audioResources'[t] = 0
       /\ onOffscreenMessage(Msg("error", t)) => Status(t)' = "inactive"]_vars

\* getUserMedia rejected for the only start of a tab: its error message is
\* in flight, the tab still starting, no stream was ever acquired for it
C5_Witness ==
  \E t \in Tabs :
    /\ Errors(toBackground, t) = 1
    /\ capturingTabs[t] = "starting"
    /\ audioResources[t] = 0
    /\ \A id \in ObjectIds : objects[id].tabId # t

\* C6: every stopAudioProcessing(tabId) ends with no record for tabId and
\* one more processing-stopped for tabId sent, with or without a record at
\* its start and whatever the release steps did; without a record it leaves
\* audioResources as it was and sends no error message.
C6_StopAlwaysNotifies ==
  [][\A t \in Tabs :
       /\ ( \/ onStopProcessing(Msg("stop-processing", t))
            \/ \E id \in ObjectIds : objects[id].tabId = t /\ onended(id) )
          /\ audioResources[t] = 0
            => /\ audioResources' = audioResources
               /\ Stops(toBackground', t) = Stops(toBackground, t) + 1
               /\ Errors(toBackground', t) = Errors(toBackground, t)
       /\ (\E c \in BagToSet(startProcessings) :
              /\ c.tabId = t
              /\ \/ getUserMediaRejected(c)
                 \/ \E built \in {"nothing", "context"}, rate \in ProtocolSampleRates :
                      getUserMediaResolved(c, built, rate))
          /\ audioResources[t] = 0
            => /\ audioResources' = audioResources
               /\ Stops(toBackground', t) = Stops(toBackground, t) + 1
       /\ \A d \in BagToSet(stopProcessings) :
            d.tabId = t /\ (\E closeOk, stopOk \in BOOLEAN :
                              stopAudioProcessingResume(d, closeOk, stopOk))
              => /\ audioResources'[t] = 0
                 /\ Stops(toBackground', t) = Stops(toBackground, t) + 1
                 /\ d.then = "return" => Errors(toBackground', t) = Errors(toBackground, t)]_vars

\* a stop whose close() failed has finished: the record is gone and
\* processing-stopped is in flight although the graph is still open
C6_Witness ==
  \E t \in Tabs : \E id \in ObjectIds :
    /\ objects[id].tabId = t /\ objects[id].onended
    /\ objects[id].audioContext = "running"
    /\ audioResources[t] = 0
    /\ StartsInProgress(t) = {}
    /\ stopProcessings = EmptyBag
    /\ Stops(toBackground, t) = 1

\* C7: in stopAudioProcessing a failed close() does not keep the stream's
\* tracks from being stopped, and a failed track.stop() does not keep the
\* context from being closed.
C7_ReleasesIndependent ==
  [][\A d \in BagToSet(stopProcessings) :
       /\ stopAudioProcessingResume(d, FALSE, TRUE) => objects'[d.id].stream # "live"
       /\ stopAudioProcessingResume(d, TRUE, FALSE) => objects'[d.id].audioContext = "closed"]_vars

(***************************************************************************)
(* applySettings on one graph: the graph is built and the initial settings *)
(* are applied (startAudioProcessing), then every update-settings message  *)
(* applies the object the popup sent, one control changed at a time.       *)
(* Before the first update the previous call is the initial call itself.   *)
(***************************************************************************)
ApplyInit ==
  /\ ProtocolInit
  /\ \E rate \in SampleRates, s \in OneEdit(defaultSettings) \cup {defaultSettings} :
       /\ apSettings = s
       /\ apRes = applySettings(ConstructedNodes(rate), s)
       /\ apPrevSettings = s
       /\ apPrevRes = applySettings(ConstructedNodes(rate), s)

ApplyUpdate ==
  \E s \in OneEdit(apSettings) \cup {apSettings} :
    /\ apPrevSettings' = apSettings
    /\ apPrevRes' = apRes
    /\ apSettings' = s
    /\ apRes' = applySettings(apRes, s)
    /\ UNCHANGED <<bgVars, msgVars, engVars, envVars, response, toPopup>>

ApplyNext == ApplyUpdate

ApplySpec == ApplyInit /\ [][ApplyNext]_vars

(***************************************************************************)
(* Properties of applySettings, checked under ApplySpec.                   *)
(***************************************************************************)
\* the targets the two sub-flags gate
GatedTargets(res) ==
  <<res.notchFrequency, res.notchQ, res.bandpassFrequency, res.bandpassQ,
    res.lowpassFrequency, res.threshold, res.knee, res.ratio>>

FilterTargets(res) ==
  <<res.notchFrequency, res.notchQ, res.bandpassFrequency, res.bandpassQ,
    res.lowpassFrequency>>

CompressorTargets(res) == <<res.threshold, res.knee, res.ratio>>

\* C8: with voiceEnhancementEnabled = false the notch, bandpass, lowpass and
\* compressor targets are the neutral values (notch 10 Hz / Q 0.01, bandpass
\* 10 Hz / Q 0.01, lowpass sampleRate/2 - 1, compressor 0, 0, 1) whatever
\* noiseCancelEnabled and normalizeEnabled are, and so equal the targets of
\* the previous call when that call had the master flag off as well.
C8_BypassEquivalence ==
  ~apSettings.voiceEnhancementEnabled =>
    /\ GatedTargets(apRes) = <<10, 1, 10, 1, (apRes.sampleRate \div 2) - 1, 0, 0, 1>>
    /\ ~apPrevSettings.voiceEnhancementEnabled
         => GatedTargets(apRes) = GatedTargets(apPrevRes)

\* the master flag is off while both sub-flags are on, right after a call
\* with the master flag off and a sub-flag off
C8_Witness ==
  /\ ~apSettings.voiceEnhancementEnabled
  /\ apSettings.noiseCancelEnabled /\ apSettings.normalizeEnabled
  /\ ~apPrevSettings.voiceEnhancementEnabled
  /\ ~apPrevSettings.noiseCancelEnabled

\* C9: with voiceEnhancementEnabled = true, noiseCancelEnabled alone selects
\* the notch / bandpass / lowpass targets (60 Hz, Q 10, 1850 Hz, Q 0.8,
\* 4000 Hz when true, the neutral set when false) and normalizeEnabled alone
\* selects the compressor targets (-24, 30, 12 when true; 0, 0, 1 when false).
C9_IndependentGates ==
  apSettings.voiceEnhancementEnabled =>
    /\ FilterTargets(apRes) =
         IF apSettings.noiseCancelEnabled
         THEN <<60, 1000, 1850, 80, 4000>>
         ELSE <<10, 1, 10, 1, (apRes.sampleRate \div 2) - 1>>
    /\ CompressorTargets(apRes) =
         IF apSettings.normalizeEnabled THEN <<-24, 30, 12>> ELSE <<0, 0, 1>>

\* the two sub-flags differ under the master flag: {true, true, false} was
\* applied, and before it {true, false, true} or {true, false, false}
C9_Witness ==
  /\ apSettings.voiceEnhancementEnabled
  /\ apSettings.noiseCancelEnabled /\ ~apSettings.normalizeEnabled
  /\ apPrevSettings.voiceEnhancementEnabled /\ ~apPrevSettings.noiseCancelEnabled
  /\ FilterTargets(apRes) = <<60, 1000, 1850, 80, 4000>>
  /\ CompressorTargets(apRes) = <<0, 0, 1>>

\* the two settings objects differ in the gain of band k and in nothing else
DifferOnlyInBand(s1, s2, k) ==
  /\ s1.eqGain[k] # s2.eqGain[k]
  /\ [s1 EXCEPT !.eqGain[k] = s2.eqGain[k]] = s2

\* C10: when two consecutive calls differ only in the gain of one band k,
\* the second call leaves every other band's target and every notch,
\* bandpass, lowpass and compressor target as the first call set them.
C10_EqIndependence ==
  \A k \in Bands :
    DifferOnlyInBand(apPrevSettings, apSettings, k) =>
      /\ \A j \in Bands \ {k} : apRes.eqGain[j] = apPrevRes.eqGain[j]
      /\ GatedTargets(apRes) = GatedTargets(apPrevRes)
      /\ <<apRes.attack, apRes.release>> = <<apPrevRes.attack, apPrevRes.release>>

\* one band was moved to 12 dB while another band already stood at 12 dB
C10_Witness ==
  \E k \in Bands : \E j \in Bands \ {k} :
    /\ DifferOnlyInBand(apPrevSettings, apSettings, k)
    /\ apRes.eqGain[k] = 12 /\ apPrevRes.eqGain[k] = 0
    /\ apRes.eqGain[j] = 12

\* C11: applySettings is idempotent: applying to a graph the settings that
\* were applied to it last changes no target, whatever the targets were
\* before that last call; so two consecutive calls with the same settings
\* leave the targets of the first.
C11_Idempotent ==
  /\ applySettings(apRes, apSettings) = apRes
  /\ apSettings = apPrevSettings => apRes = apPrevRes

\* the same settings were applied twice in a row, with the master flag off,
\* a sub-flag on and two bands away from 0, one of them at 12 dB
C11_Witness ==
  /\ apSettings = apPrevSettings
  /\ ~apSettings.voiceEnhancementEnabled /\ apSettings.noiseCancelEnabled
  /\ Cardinality(EditedBands(apSettings)) = 2
  /\ \E k \in Bands : apRes.eqGain[k] = 12

\* C29: after every applySettings call, whatever the three flags are, the
\* gain target of each of the ten bands is the value of the config's
\* eq<k>Gain when the config has that key and 0 when it has not.
C29_EqGainFromConfig ==
  \A k \in Bands :
    apRes.eqGain[k] =
      IF apSettings.eqGain[k] = Absent THEN 0 ELSE apSettings.eqGain[k][1]

\* with the master flag off and a sub-flag on, the key of a band that stood
\* at 12 dB was dropped from the config while another band is at 12 dB
C29_Witness ==
  \E k \in Bands : \E j \in Bands \ {k} :
    /\ ~apSettings.voiceEnhancementEnabled /\ apSettings.normalizeEnabled
    /\ apSettings.eqGain[k] = Absent
    /\ apPrevRes.eqGain[k] = 12 /\ apRes.eqGain[k] = 0
    /\ apSettings.eqGain[j] = <<12>> /\ apRes.eqGain[j] = 12

(***************************************************************************)
(* Properties of the coordinator's queries and settings store, checked     *)
(* under Spec.                                                             *)
(***************************************************************************)
\* C12: a tab that was never started and never got a settings update has no
\* entry in either map (an entry appears only by a toggle, an update-settings
\* or a startCapture of that tab), and for a tab without entries get-status
\* answers inactive and get-settings answers the defaults: the three flags
\* true and the ten gains 0.
C12_UntouchedTabDefaults ==
  [][\A t \in Tabs :
       /\ capturingTabs[t] = "none" /\ capturingTabs'[t] # "none"
            => \/ toggleCapture(t)
               \/ \E c \in BagToSet(startCaptures) : c.tabId = t /\ startCaptureResume(c, FALSE)
       /\ tabSettings[t] = NoSettings /\ tabSettings'[t] # NoSettings
            => \/ \E s \in PopupSettings : onUpdateSettings(t, s)
               \/ \E c \in BagToSet(startCaptures) : c.tabId = t /\ startCaptureResume(c, TRUE)
       /\ CopiesIn([tabId |-> t], startCaptures') > CopiesIn([tabId |-> t], startCaptures)
            => toggleCapture(t)
       /\ onGetStatus(t) /\ capturingTabs[t] = "none"
            => response' = Response("get-status", t, [status |-> "inactive"])
       /\ onGetSettings(t) /\ tabSettings[t] = NoSettings
            => response' = Response("get-settings", t,
                 [voiceEnhancementEnabled |-> TRUE, noiseCancelEnabled |-> TRUE,
                  normalizeEnabled |-> TRUE, eqGain |-> [k \in Bands |-> <<0>>]])]_vars

\* a tab nobody touched was asked for its settings and answered the
\* defaults, while the other tab is starting with edited settings stored
C12_Witness ==
  \E t \in Tabs : \E u \in Tabs \ {t} :
    /\ t \notin removedTabs
    /\ capturingTabs[t] = "none" /\ tabSettings[t] = NoSettings
    /\ response = Response("get-settings", t, defaultSettings)
    /\ capturingTabs[u] = "starting"
    /\ tabSettings[u] \notin {NoSettings, defaultSettings}

\* C13: closing a tab whose status is active sends one stop-processing for
\* it and removes its status entry and its settings entry; the engine
\* handling a stop-processing for a tab with a record deletes the record (at
\* once, or when the close() it awaits has settled); and get-settings for a
\* closed tab answers the defaults.
C13_CloseWhileActive ==
  [][\A t \in Tabs :
       /\ onRemoved(t) /\ capturingTabs[t] = "active"
            => /\ CopiesIn(Msg("stop-processing", t), toOffscreen')
                    = CopiesIn(Msg("stop-processing", t), toOffscreen) + 1
               /\ capturingTabs'[t] = "none"
               /\ tabSettings'[t] = NoSettings
       /\ onStopProcessing(Msg("stop-processing", t)) /\ audioResources[t] # 0
            => LET d == [tabId |-> t, id |-> audioResources[t], then |-> "return"]
               IN  \/ audioResources'[t] = 0
                   \/ CopiesIn(d, stopProcessings') = CopiesIn(d, stopProcessings) + 1
       /\ (\E d \in BagToSet(stopProcessings), closeOk, stopOk \in BOOLEAN :
             d.tabId = t /\ stopAudioProcessingResume(d, closeOk, stopOk))
            => audioResources'[t] = 0
       /\ onGetSettings(t) /\ t \in removedTabs
            => response' = Response("get-settings", t, defaultSettings)]_vars

\* a tab was started, answered get-status with active and was then closed:
\* both entries are gone, the stop was delivered and the session torn down
C13_Witness ==
  \E t \in Tabs : \E id \in ObjectIds :
    /\ ops = 3
    /\ response = Response("get-status", t, [status |-> "active"])
    /\ t \in removedTabs
    /\ capturingTabs[t] = "none" /\ tabSettings[t] = NoSettings
    /\ objects[id].tabId = t
    /\ objects[id].stream = "stopped" /\ objects[id].audioContext = "closed"
    /\ audioResources[t] = 0
    /\ Quiescent

\* C14: a tab close, and a navigation of a tab (status loading or a new URL),
\* in any state of the tab discards its stored settings and its status: right
\* after it get-settings would answer the defaults and get-status inactive.
C14_DiscardOnCloseOrNavigate ==
  [][\A t \in Tabs :
       onRemoved(t) \/ onUpdated(t, TRUE)
         => /\ getSettingsForTab(t)' = defaultSettings
            /\ Status(t)' = "inactive"]_vars

\* the update-settings messages for a tab carrying a settings object
UpdatesInFlight(bag, t, s) ==
  CopiesIn([type |-> "update-settings", tabId |-> t, settings |-> s], bag)

\* C15: an update-settings from the popup with a settings object stores the
\* object for the tab and leaves every status as it was; it sends one
\* update-settings with that object to the engine when the tab's status is
\* active at receipt and sends nothing when it is inactive, starting,
\* stopping or absent.
C15_StoreAndForwardIfActive ==
  [][\A t \in Tabs : \A s \in PopupSettings :
       onUpdateSettings(t, s)
         => /\ tabSettings'[t] = s
            /\ capturingTabs' = capturingTabs
            /\ IF capturingTabs[t] = "active"
               THEN /\ UpdatesInFlight(toOffscreen', t, s) = UpdatesInFlight(toOffscreen, t, s) + 1
                    /\ toOffscreen' (-) One([type |-> "update-settings", tabId |-> t,
                                             settings |-> s]) = toOffscreen
               ELSE toOffscreen' = toOffscreen]_vars

\* an update for an active tab is on its way to the engine, and an update
\* for the other tab, which was never started, was stored and not forwarded
C15_Witness ==
  \E t \in Tabs : \E u \in Tabs \ {t} : \E s \in PopupSettings \ {defaultSettings} :
    /\ capturingTabs[t] = "active" /\ tabSettings[t] = s
    /\ UpdatesInFlight(toOffscreen, t, s) = 1
    /\ capturingTabs[u] = "none" /\ tabSettings[u] = s
    /\ UpdatesInFlight(toOffscreen, u, s) = 0
    /\ response = Response("update-settings", u, [success |-> TRUE])

\* C16: every start-processing message sent for a tab carries the settings
\* stored for that tab at that moment (the object of the last update-settings,
\* or the defaults when the tab has no entry), and these are the settings
\* stored for the tab right after the send.
C16_StartCarriesStoredSettings ==
  [][\A m \in BagToSet(toOffscreen') :
       m.type = "start-processing" /\ CopiesIn(m, toOffscreen') > CopiesIn(m, toOffscreen)
         => /\ m.settings = getSettingsForTab(m.tabId)
            /\ m.settings = tabSettings'[m.tabId]]_vars

\* settings stored by an update-settings before the dispatch are in the
\* start-processing message of the tab's start
C16_Witness ==
  \E t \in Tabs : \E s \in PopupSettings \ {defaultSettings} :
    /\ capturingTabs[t] = "starting"
    /\ tabSettings[t] = s
    /\ response = Response("update-settings", t, [success |-> TRUE])
    /\ BagIn([type |-> "start-processing", tabId |-> t, streamId |-> TRUE, settings |-> s],
             toOffscreen)
    /\ ops = 2

\* C17: in every quiescent state in which a tab's status is active and the
\* engine holds its session, the settings applied last to that session are
\* the settings the coordinator stores for the tab.
C17_StoredConfigApplied ==
  Quiescent =>
    \A t \in Tabs :
      capturingTabs[t] = "active" /\ audioResources[t] # 0
        => objects[audioResources[t]].settings = tabSettings[t]

\* a start of the tab has not come to its end: its startCapture is suspended,
\* its start-processing is in flight or its startAudioProcessing awaits
\* getUserMedia
StartUnderWay(t) ==
  \/ BagIn([tabId |-> t], startCaptures)
  \/ \E m \in BagToSet(toOffscreen) : m.type = "start-processing" /\ m.tabId = t
  \/ StartsInProgress(t) # {}

\* the tab's first start was followed by a stop request while the status was
\* starting, and no request can follow: nothing was acquired for the tab yet,
\* its one stop-processing is in flight and its start is under way
StopDuringStarting(t) ==
  /\ ops = MaxOps
  /\ capturingTabs[t] = "stopping"
  /\ StartUnderWay(t)
  /\ CopiesIn(Msg("stop-processing", t), toOffscreen) = 1
  /\ \A id \in ObjectIds : objects[id].tabId # t
  /\ audioResources[t] = 0
  /\ \A m \in BagToSet(toBackground) : m.tabId # t

\* C18: a stop requested while a tab is starting takes effect after the
\* start: once a start request was followed by a stop request during
\* starting and no request follows, the tab comes to rest with status
\* inactive and without a session.
C18_StopQueuedBehindStart ==
  \A t \in Tabs :
    StopDuringStarting(t)
      ~> (Quiescent /\ Status(t) = "inactive" /\ audioResources[t] = 0)

\* C19: a tab's status becomes active only when a processing-started for the
\* tab is received while its status is starting; a processing-started
\* received while the status is inactive or stopping does not make it active.
C19_ActiveOnlyFromStarting ==
  [][\A t \in Tabs :
       capturingTabs'[t] = "active" /\ capturingTabs[t] # "active"
         => /\ onOffscreenMessage(Msg("processing-started", t))
            /\ capturingTabs[t] = "starting"]_vars

C23_WaitsForNotification ==
  [][\A t \in Tabs :
       /\ capturingTabs[t] \in {"starting", "stopping"}
       /\ capturingTabs'[t] \in {"active", "inactive"}
       => \/ \E type \in {"processing-started", "processing-stopped", "error"} :
               onOffscreenMessage(Msg(type, t))
          \/ /\ capturingTabs[t] = "starting"
             /\ \E c \in BagToSet(startCaptures) : c.tabId = t /\ startCaptureResume(c, FALSE)]_vars

(***************************************************************************)
(* Properties of the engine's sessions, checked under Spec.                *)
(***************************************************************************)
\* the nodes b with a.connect(b) among the connections
Outputs(connections, a) == {e[2] : e \in {f \in connections : f[1] = a}}

\* the signal path from node a: the nodes passed, in order, as long as each
\* node feeds exactly one node
RECURSIVE PathFrom(_, _, _)
PathFrom(connections, a, fuel) ==
  IF fuel = 0 \/ Cardinality(Outputs(connections, a)) # 1
  THEN <<a>>
  ELSE <<a>> \o PathFrom(connections, CHOOSE b \in Outputs(connections, a) : TRUE, fuel - 1)

SignalPath(connections) == PathFrom(connections, "source", NumBands + 6)

\* C21: in every session the signal path from the stream source is: notch,
\* bandpass, lowpass, the ten peaking filters in band order (31 Hz first,
\* 16000 Hz last), compressor, gain, destination; so each of the ten
\* equalizer stages lies on the path.
C21_FullChain ==
  \A t \in Tabs :
    audioResources[t] # 0 =>
      /\ SignalPath(objects[audioResources[t]].connections)
           = <<"source", "notch", "bandpass", "lowpass">>
               \o [k \in Bands |-> Eq(k)]
               \o <<"compressor", "gain", "destination">>
      /\ \A k \in 1..(NumBands - 1) : eqFrequencies[k] < eqFrequencies[k + 1]

\* C22: when the construction after a resolved getUserMedia fails (new
\* AudioContext() or a later step throws), the stream just acquired is no
\* longer live and the context just created is no longer running by the time
\* the error message is sent.
C22_PartialResourcesReleased ==
  [][\A c \in BagToSet(startProcessings) :
       \A built \in {"nothing", "context"} : \A rate \in ProtocolSampleRates :
         /\ getUserMediaResolved(c, built, rate)
         /\ Errors(toBackground', c.tabId) > Errors(toBackground, c.tabId)
         => /\ objects'[FreeId].stream # "live"
            /\ objects'[FreeId].audioContext # "running"]_vars

\* C24: when a track of the stream of a tab's session ends, the engine runs
\* stopAudioProcessing for the tab: the record is deleted and
\* processing-stopped sent (at once, or when the close() it awaits has
\* settled); and the coordinator receiving processing-stopped sets the
\* status of a tab that has an entry to inactive and creates no entry.
C24_TrackEndStops ==
  [][\A t \in Tabs :
       /\ \A id \in ObjectIds :
            onended(id) /\ objects[id].tabId = t /\ audioResources[t] = id
              => LET d == [tabId |-> t, id |-> id, then |-> "return"]
                 IN  \/ /\ audioResources'[t] = 0
                        /\ Stops(toBackground', t) = Stops(toBackground, t) + 1
                     \/ CopiesIn(d, stopProcessings') = CopiesIn(d, stopProcessings) + 1
       /\ \A d \in BagToSet(stopProcessings) :
            /\ d.tabId = t /\ d.then = "return"
            /\ \E closeOk, stopOk \in BOOLEAN : stopAudioProcessingResume(d, closeOk, stopOk)
            => /\ audioResources'[t] = 0
               /\ Stops(toBackground', t) = Stops(toBackground, t) + 1
       /\ onOffscreenMessage(Msg("processing-stopped", t))
            => capturingTabs'[t] = IF capturingTabs[t] = "none" THEN "none" ELSE "inactive"]_vars

\* the track of an active tab's only session ended: the session is gone,
\* its context closed, and the delivered processing-stopped made the tab
\* inactive
C24_Witness ==
  \E t \in Tabs : \E id \in ObjectIds :
    /\ objects[id].tabId = t
    /\ objects[id].stream = "ended" /\ objects[id].audioContext = "closed"
    /\ \A j \in ObjectIds \ {id} : objects[j].tabId # t
    /\ audioResources[t] = 0
    /\ capturingTabs[t] = "inactive"
    /\ ops = 2
    /\ Quiescent

(***************************************************************************)
(* Properties of the handlers of single messages, checked under Spec.      *)
(***************************************************************************)
\* C25: the coordinator receiving processing-started, processing-stopped or
\* error for a tab that has a status entry sets the tab's status to active,
\* inactive, inactive respectively and sends one status-update with that
\* tabId and that status, no other; whatever becomes of the status-update
\* (the catch of a failed delivery logs), nothing else of the coordinator's
\* state changes: not another tab's status, not the settings map, no call is
\* started and no message goes to the engine.
C25_NotificationUpdatesPopup ==
  [][\A t \in Tabs : \A type \in {"processing-started", "processing-stopped", "error"} :
       onOffscreenMessage(Msg(type, t)) /\ capturingTabs[t] # "none"
         => LET status == IF type = "processing-started" THEN "active" ELSE "inactive"
            IN  /\ capturingTabs' = [capturingTabs EXCEPT ![t] = status]
                /\ toPopup' = toPopup (+) One(StatusUpdate(t, status))
                /\ tabSettings' = tabSettings
                /\ startCaptures' = startCaptures
                /\ toOffscreen' = toOffscreen]_vars

\* getUserMedia rejected for a starting tab: processing-stopped and error
\* were both received, the second while the tab was inactive already, and
\* each sent its own status-update
C25_Witness ==
  \E t \in Tabs :
    /\ CopiesIn(StatusUpdate(t, "inactive"), toPopup) = 2
    /\ capturingTabs[t] = "inactive"
    /\ \A id \in ObjectIds : objects[id] = UnusedObject
    /\ ops = 1
    /\ Quiescent

\* C26: a start-processing with a streamId for a tab that has a session
\* starts no acquisition (no getUserMedia call is pending after it), leaves
\* the map of sessions and every session's stream, context and parameters as
\* they were, and sends one processing-started for the tab.
C26_StartIdempotent ==
  [][\A m \in BagToSet(toOffscreen) :
       /\ m.type = "start-processing"
       /\ m.streamId
       /\ audioResources[m.tabId] # 0
       /\ onStartProcessing(m)
       => /\ startProcessings' = startProcessings
          /\ audioResources' = audioResources
          /\ objects' = objects
          /\ stopProcessings' = stopProcessings
          /\ toBackground' = toBackground (+) One(Msg("processing-started", m.tabId))]_vars

\* an active tab was reloaded and toggled on again, and the new
\* start-processing overtook the stop-processing of the reload: the session
\* of the first start is the only one and processing-started is in flight
\* a second time
C26_Witness ==
  \E t \in Tabs :
    /\ ops = 3
    /\ capturingTabs[t] = "starting"
    /\ audioResources[t] # 0
    /\ objects[audioResources[t]].stream = "live"
    /\ objects[audioResources[t]].audioContext = "running"
    /\ \A id \in ObjectIds \ {audioResources[t]} : objects[id] = UnusedObject
    /\ toPopup = One(StatusUpdate(t, "active"))
    /\ toBackground = One(Msg("processing-started", t))
    /\ toOffscreen = One(Msg("stop-processing", t))
    /\ startCaptures = EmptyBag
    /\ startProcessings = EmptyBag

\* C27: a start-processing whose streamId is missing makes the engine send
\* one error for the message's tabId and nothing else: no getUserMedia call
\* is pending after it and the map of sessions and every acquired object are
\* as they were.
C27_MissingStreamId ==
  [][\A m \in BagToSet(toOffscreen) :
       /\ m.type = "start-processing"
       /\ ~m.streamId
       /\ onStartProcessing(m)
       => /\ toBackground' = toBackground (+) One(Msg("error", m.tabId))
          /\ startProcessings' = startProcessings
          /\ audioResources' = audioResources
          /\ objects' = objects
          /\ stopProcessings' = stopProcessings]_vars

\* the start-processing of a tab's first start came without a streamId: the
\* error is in flight, not preceded by any processing-stopped, and nothing
\* was acquired
C27_Witness ==
  \E t \in Tabs :
    /\ ops = 1
    /\ capturingTabs[t] = "starting"
    /\ toBackground = One(Msg("error", t))
    /\ toPopup = EmptyBag
    /\ \A id \in ObjectIds : objects[id] = UnusedObject
    /\ audioResources[t] = 0
    /\ toOffscreen = EmptyBag
    /\ startCaptures = EmptyBag
    /\ startProcessings = EmptyBag

\* C28: an update-settings reaching the engine for a tab without a session
\* does nothing: the map of sessions stays as it was (no session is
\* created), so does every acquired object with its parameters (those of
\* the other tabs' sessions among them), no call of the engine is started
\* and no message is sent to the coordinator.
C28_UpdateWithoutSessionNoOp ==
  [][\A m \in BagToSet(toOffscreen) :
       /\ m.type = "update-settings"
       /\ audioResources[m.tabId] = 0
       /\ onUpdateSettingsOffscreen(m)
       => /\ audioResources' = audioResources
          /\ objects' = objects
          /\ startProcessings' = startProcessings
          /\ stopProcessings' = stopProcessings
          /\ toBackground' = toBackground]_vars

\* the settings of an active tab were changed and the track of its stream
\* ended before the forwarded update arrived: the update found no session,
\* the ended session keeps the settings it was started with, and the
\* processing-stopped of the track's end is the only message in flight
C28_Witness ==
  \E t \in Tabs : \E id \in ObjectIds :
    /\ ops = 3
    /\ capturingTabs[t] = "active"
    /\ tabSettings[t] \in PopupSettings \ {defaultSettings}
    /\ audioResources[t] = 0
    /\ objects[id].tabId = t /\ objects[id].stream = "ended"
    /\ objects[id].settings = defaultSettings
    /\ toOffscreen = EmptyBag
    /\ toBackground = One(Msg("processing-stopped", t))
    /\ stopProcessings = EmptyBag

\* C30: when an await of startCapture throws (the offscreen document cannot
\* be created or getMediaStreamId fails), the call sends no message to the
\* engine, the engine's sessions, acquired objects and pending calls stay as
\* they were, and the tab's status is inactive.
C30_NoStreamHandle ==
  [][\A c \in BagToSet(startCaptures) :
       startCaptureResume(c, FALSE)
         => /\ toOffscreen' = toOffscreen
            /\ audioResources' = audioResources
            /\ objects' = objects
            /\ startProcessings' = startProcessings
            /\ stopProcessings' = stopProcessings
            /\ capturingTabs'[c.tabId] = "inactive"]_vars

\* a tab's first start failed in the coordinator: the tab is inactive
\* without any notification having been received, nothing is in flight and
\* nothing was acquired or stored
C30_Witness ==
  \E t \in Tabs :
    /\ ops = 1
    /\ capturingTabs[t] = "inactive"
    /\ tabSettings[t] = NoSettings
    /\ toPopup = EmptyBag
    /\ \A id \in ObjectIds : objects[id] = UnusedObject
    /\ audioResources[t] = 0
    /\ Quiescent

(***************************************************************************)
(* Properties of the coordinator's maps, checked under Spec.               *)
(***************************************************************************)
\* C31: a tab that was removed has no status entry and no settings entry in
\* any later state (no request arrives for a removed tab: its id is not
\* reused); so a startCapture that was suspended when the tab was removed
\* creates no entry in capturingTabs or tabSettings when it resumes.
C31_NoEntryAfterRemoval ==
  \A t \in removedTabs :
    /\ capturingTabs[t] = "none"
    /\ tabSettings[t] = NoSettings

\* C32: the coordinator receiving processing-started, processing-stopped or
\* error for a tab that has no status entry leaves the status map and the
\* settings map as they were (no entry is created) and sends no
\* status-update.
C32_NotificationWithoutEntry ==
  [][\A t \in Tabs : \A type \in {"processing-started", "processing-stopped", "error"} :
       onOffscreenMessage(Msg(type, t)) /\ capturingTabs[t] = "none"
         => /\ capturingTabs' = capturingTabs
            /\ tabSettings' = tabSettings
            /\ toPopup' = toPopup]_vars

\* a tab was closed while the processing-started of its session was in
\* flight: the message was received after the entries were deleted, no
\* status-update was ever sent and the tab has no entry
C32_Witness ==
  \E t \in removedTabs :
    /\ ops = 2
    /\ capturingTabs[t] = "none"
    /\ tabSettings[t] = NoSettings
    /\ audioResources[t] # 0
    /\ toBackground = EmptyBag
    /\ toPopup = EmptyBag
    /\ toOffscreen = One(Msg("stop-processing", t))

C34_SettingsRoundTrip ==
  [][\A t \in Tabs :
       /\ \A s \in PopupSettings : onUpdateSettings(t, s) => tabSettings'[t] = s
       /\ tabSettings[t] # NoSettings /\ tabSettings'[t] # tabSettings[t]
            => \/ \E s \in PopupSettings : onUpdateSettings(t, s)
               \/ onRemoved(t)
               \/ \E reload \in BOOLEAN : onUpdated(t, reload)
       /\ onGetSettings(t) /\ tabSettings[t] # NoSettings
            => response' = Response("get-settings", t, tabSettings[t])]_vars

\* the object that lacks a key was stored for a tab whose start is under
\* way, and get-settings answered it with the key still missing
C34_Witness ==
  \E t \in Tabs : \E s \in PopupSettings :
    /\ ops = 3
    /\ s.eqGain[2] = Absent
    /\ tabSettings[t] = s
    /\ response = Response("get-settings", t, s)
    /\ capturingTabs[t] = "starting"

====
